---- MODULE Spec2Model ----
(***************************************************************************)
(* Model of flow/scenarios/base_scenario.py: the coordinate index of a    *)
(* Scenario (get_edge / get_x over the edge-start tables built by         *)
(* __init__) and the starting-position generators                         *)
(* (generate_starting_positions, gen_even_start_pos,                      *)
(* gen_random_start_pos, _get_start_pos_util).                            *)
(*                                                                         *)
(* Lengths and positions are Python floats in the source.  Here they are  *)
(* exact rationals, stored as integer multiples of 1/Scale metre, where   *)
(* Scale is a common multiple of every divisor the code divides by        *)
(* (num_vehicles and num_vehicles - car_count), so every division of the  *)
(* model is exact.  Floating-point rounding is not modelled.              *)
(***************************************************************************)
EXTENDS Integers, Sequences, FiniteSets, TLC

(***************************************************************************)
(* Bounds and program constants                                            *)
(***************************************************************************)
\* largest number of vehicles a call places
MaxVeh == 3

\* VEHICLE_LENGTH, in metres
VEHICLE_LENGTH == 5

\* number of tries on the .net.xml file before generate_net gives up
RETRIES_ON_ERROR == 10

\* the "not found" value of get_x, edge_length, speed_limit, num_lanes
NOT_FOUND == -1001

RECURSIVE Gcd(_, _)
Gcd(a, b) == IF b = 0 THEN a ELSE Gcd(b, a % b)

RECURSIVE LcmUpTo(_)
LcmUpTo(n) == IF n <= 1 THEN 1 ELSE (LcmUpTo(n - 1) * n) \div Gcd(LcmUpTo(n - 1), n)

\* number of model units in one metre
Scale == LcmUpTo(MaxVeh)

\* metres to model units
M(v) == v * Scale

\* VEHICLE_LENGTH in model units
VL == M(VEHICLE_LENGTH)

(***************************************************************************)
(* Generic helpers for Python lists, dicts and builtins                    *)
(***************************************************************************)
Min2(a, b) == IF a <= b THEN a ELSE b

Max2(a, b) == IF a >= b THEN a ELSE b

Range(s) == {s[i] : i \in DOMAIN s}

RECURSIVE SumSeq(_)
SumSeq(s) == IF s = <<>> THEN 0 ELSE Head(s) + SumSeq(Tail(s))

RECURSIVE MaxSeq(_)
MaxSeq(s) == IF Len(s) = 1 THEN s[1] ELSE Max2(Head(s), MaxSeq(Tail(s)))

\* the keys of dict(list_of_pairs)
DictKeys(pairs) == {pairs[i][1] : i \in DOMAIN pairs}

\* dict(list_of_pairs)[key]: the last pair with that key wins
DictGet(pairs, key) ==
    LET idx == {i \in DOMAIN pairs : pairs[i][1] = key}
        last == CHOOSE i \in idx : \A j \in idx : j <= i
    IN  pairs[last][2]

\* list.sort(key=lambda tup: tup[1]): a stable sort by the second component
RECURSIVE InsertByStart(_, _)
InsertByStart(sorted, item) ==
    IF sorted = <<>> THEN <<item>>
    ELSE IF Head(sorted)[2] <= item[2]
         THEN <<Head(sorted)>> \o InsertByStart(Tail(sorted), item)
         ELSE <<item>> \o sorted

RECURSIVE SortByStart(_)
SortByStart(s) ==
    IF s = <<>> THEN <<>>
    ELSE InsertByStart(SortByStart(SubSeq(s, 1, Len(s) - 1)), s[Len(s)])

(***************************************************************************)
(* Edge identifiers.  TLC strings cannot be indexed, so the two string    *)
(* operations of the source are tables over the identifiers in use.       *)
(***************************************************************************)
\* edge_id[0] == ":" : the identifier names an internal link (junction)
HasColonPrefix(edge) == edge \in {":j", ":j_0", ":k"}

\* edge.rsplit("_", 1)[0]
RSplitHead(edge) == IF edge = ":j_0" THEN ":j" ELSE edge

(***************************************************************************)
(* State                                                                   *)
(***************************************************************************)
VARIABLES
    net,              \* what __init__ receives from generate_net and the subclass
    tables,           \* the edge lists and edge-start tables __init__ stores
    vehicles,         \* the fleet: [num_vehicles, types]; the identity of a
                      \* vehicle is its index in types
    initial_config,   \* the caller's InitialConfig object (shared, mutable)
    total_veh_types,  \* self.total_veh_types
    pc,               \* position of the placement call
    strategy,         \* the strategy the running call dispatched to
    num_vehicles,     \* num_vehicles of the running strategy frame
    kwargs,           \* the per-call override map
    util,             \* what _get_start_pos_util returned to the running frame
    x,                \* gen_even_start_pos: the cursor
    pos,              \* gen_even_start_pos: (edge, offset) of the cursor
    car_count,        \* gen_even_start_pos: vehicles placed so far
    increment,        \* gen_even_start_pos: the stride
    startpositions,   \* the running frame's list of (edge, offset)
    startlanes,       \* the running frame's list of lanes
    outer,            \* the frame of the weighted-mapping loop, when there is one
    ret,              \* what generate_starting_positions returned or raised
    query,            \* the last lookup of a runtime caller
    hist,             \* record of the calls: the caller's configuration and the
                      \* tag list at the entry of the running call, its random
                      \* draws, and the draws and the result of the call before
    routes,           \* what make_routes bound the placements to
    netgen            \* the import loop of generate_net

vars == <<net, tables, vehicles, initial_config, total_veh_types, pc, strategy,
          num_vehicles, kwargs, util, x, pos, car_count, increment,
          startpositions, startlanes, outer, ret, query, hist, routes,
          netgen>>

\* the variables of a running strategy frame
frame == <<strategy, num_vehicles, kwargs, util, x, pos, car_count, increment,
           startpositions, startlanes, outer>>

(***************************************************************************)
(* The tables __init__ builds                                              *)
(***************************************************************************)
\* self._edge_list: the keys of self._edges that are no internal links
EdgeListOf(n) == SelectSeq(n.edge_keys, LAMBDA e : ~HasColonPrefix(e))

get_edge_list == tables.edge_list

\* self._junction_list
get_junction_list == Range(net.edge_keys) \ Range(get_edge_list)

\* edge_length with 0 in place of the sentinel
EdgeLengthNoSentinel(edge_id) ==
    IF edge_id \in Range(net.edge_keys) THEN net.length[edge_id] ELSE 0

edge_length(edge_id) ==
    IF edge_id \in Range(net.edge_keys) THEN net.length[edge_id] ELSE NOT_FOUND

speed_limit(edge_id) ==
    IF edge_id \in Range(net.edge_keys) THEN net.speed[edge_id] ELSE NOT_FOUND

num_lanes(edge_id) ==
    IF edge_id \in Range(net.edge_keys) THEN net.lanes[edge_id] ELSE NOT_FOUND

\* self._connections["next"][edge][lane]; [] on a KeyError of either level
next_edge(edge, lane) ==
    IF edge \in DOMAIN net.connections.next
    THEN IF lane \in DOMAIN net.connections.next[edge]
         THEN net.connections.next[edge][lane]
         ELSE <<>>
    ELSE <<>>

\* self._connections["prev"][edge][lane]; [] on a KeyError of either level
prev_edge(edge, lane) ==
    IF edge \in DOMAIN net.connections.prev
    THEN IF lane \in DOMAIN net.connections.prev[edge]
         THEN net.connections.prev[edge][lane]
         ELSE <<>>
    ELSE <<>>

\* [self.num_lanes(edge_id) for edge_id in edges]
LanesOf(edges) == [i \in DOMAIN edges |-> num_lanes(edges[i])]

\* [item for item in lst if item[1] not in seen and not seen.add(item[1])]
RECURSIVE DedupBySecond(_, _)
DedupBySecond(lst, seen) ==
    IF lst = <<>> THEN <<>>
    ELSE IF Head(lst)[2] \in seen
         THEN DedupBySecond(Tail(lst), seen)
         ELSE <<Head(lst)>> \o DedupBySecond(Tail(lst), seen \cup {Head(lst)[2]})

\* self.internal_edgestarts after the merge with the intersection edge-starts
MergedInternalEdgestarts(n) ==
    DedupBySecond(n.internal_edgestarts \o n.intersection_edgestarts, {})

\* self.total_edgestarts, ordered by position
TotalEdgestarts(n) ==
    SortByStart(IF n.no_internal_links
                THEN n.edgestarts
                ELSE n.edgestarts \o MergedInternalEdgestarts(n))

\* self.length: the sum of the lengths of the edges of get_edge_list()
NetworkLength(n) ==
    SumSeq([i \in DOMAIN EdgeListOf(n) |-> n.length[EdgeListOf(n)[i]]])

\* the attributes __init__ leaves on the scenario
BuildTables(n) ==
    [edge_list |-> EdgeListOf(n),
     internal_edgestarts |-> MergedInternalEdgestarts(n),
     total_edgestarts |-> TotalEdgestarts(n),
     length |-> NetworkLength(n)]

internal_edgestarts == tables.internal_edgestarts

total_edgestarts == tables.total_edgestarts

length == tables.length

(***************************************************************************)
(* The coordinate index                                                    *)
(***************************************************************************)
\* get_edge returns None when no start position is <= x
None == <<>>

\* get_edge returning the absolute position in place of the relative one
GetEdgeAbsolute(xx) ==
    LET hits == {i \in DOMAIN total_edgestarts : xx >= total_edgestarts[i][2]}
    IN  IF hits = {} THEN None
        ELSE LET i == CHOOSE i \in hits : \A j \in hits : j <= i
             IN  <<total_edgestarts[i][1], xx>>

\* for (edge, start_pos) in reversed(self.total_edgestarts): if x >= start_pos
get_edge(xx) ==
    LET hits == {i \in DOMAIN total_edgestarts : xx >= total_edgestarts[i][2]}
    IN  IF hits = {} THEN None
        ELSE LET i == CHOOSE i \in hits : \A j \in hits : j <= i
             IN  <<total_edgestarts[i][1], xx - total_edgestarts[i][2]>>

\* get_x: [exc |-> the exception raised, "" for none, val |-> the value returned]
get_x(edge, position) ==
    IF edge = "" THEN [exc |-> "", val |-> NOT_FOUND]
    ELSE IF HasColonPrefix(edge)
    THEN IF edge \in DictKeys(internal_edgestarts)
         THEN [exc |-> "", val |-> DictGet(internal_edgestarts, edge) + position]
         ELSE IF RSplitHead(edge) \in DictKeys(total_edgestarts)
              THEN [exc |-> "", val |-> DictGet(total_edgestarts, RSplitHead(edge))]
              ELSE [exc |-> "", val |-> NOT_FOUND]
    ELSE IF edge \in DictKeys(total_edgestarts)
         THEN [exc |-> "", val |-> DictGet(total_edgestarts, edge) + position]
         ELSE [exc |-> "KeyError", val |-> 0]

(***************************************************************************)
(* _get_start_pos_util                                                     *)
(*                                                                         *)
(* edges_distribution is [kind, keys, vals]: kind "all" (the token),      *)
(* "list" (keys is the list) or "dict" (keys in insertion order, vals[i]  *)
(* the value of keys[i]: [int |-> TRUE, n |-> count] or                   *)
(* [int |-> FALSE, pairs |-> list of <<type, count>>]).                   *)
(***************************************************************************)
\* the edges the placement may use, before the length filter
CandidateEdges(cfg) ==
    IF cfg.edges_distribution.kind = "all"
    THEN get_edge_list
    ELSE cfg.edges_distribution.keys

\* available_edges: [edge for edge in ... if edge_length(edge) > min_gap + VEHICLE_LENGTH]
AvailableEdges(cfg, min_gap) ==
    SelectSeq(CandidateEdges(cfg), LAMBDA e : edge_length(e) > min_gap + VL)

\* lanes_distribution, clamped by max_lane and by 1
LanesDistribution(cfg) ==
    LET max_lane == MaxSeq(LanesOf(CandidateEdges(cfg)))
    IN  IF cfg.lanes_distribution > max_lane THEN max_lane
        ELSE IF cfg.lanes_distribution < 1 THEN 1
        ELSE cfg.lanes_distribution

\* distribution_length: sum of edge_length * min(num_lanes, lanes_distribution)
DistributionLength(cfg, min_gap, lanes_distr) ==
    LET av == AvailableEdges(cfg, min_gap)
    IN  SumSeq([i \in DOMAIN av |->
                  edge_length(av[i]) * Min2(num_lanes(av[i]), lanes_distr)])

\* the capacity test that forgets the vehicles' own length
CapacityErrorGapOnly(available_length, n, min_gap) ==
    available_length + n * VL < 0

\* if available_length < 0: raise ValueError
CapacityError(available_length, n, min_gap) == available_length < 0

\* the whole of _get_start_pos_util; exc is "" when it returns
StartPosUtil(cfg, n, kw) ==
    LET min_gap  == Max2(0, cfg.min_gap)
        x0       == IF kw.has_x0 THEN kw.x0 ELSE cfg.x0
        clamped  == IF cfg.bunching < 0 THEN 0 ELSE cfg.bunching
        bunching == IF kw.has_bunching THEN kw.bunching ELSE clamped
        lanes_distr == LanesDistribution(cfg)
        available_length ==
            DistributionLength(cfg, min_gap, lanes_distr)
              - lanes_distr * bunching - n * (min_gap + VL)
    IN  [exc     |-> IF CapacityError(available_length, n, min_gap)
                     THEN "ValueError" ELSE "",
         x0      |-> x0,
         min_gap |-> min_gap,
         bunching |-> bunching,
         lanes_distribution |-> lanes_distr,
         available_length |-> available_length,
         available_edges |-> AvailableEdges(cfg, min_gap)]

\* util before any call of _get_start_pos_util
NoUtil ==
    [exc |-> "", x0 |-> 0, min_gap |-> 0, bunching |-> 0, lanes_distribution |-> 0,
     available_length |-> 0, available_edges |-> <<>>]

(***************************************************************************)
(* The weighted mapping                                                    *)
(***************************************************************************)
\* sum(pair[1] for pair in pairs)
PairCount(pairs) == SumSeq([i \in DOMAIN pairs |-> pairs[i][2]])

\* the count of a key taken from its first pair alone
KeyCountFirstPair(val) ==
    IF val.int THEN val.n
    ELSE IF val.pairs = <<>> THEN 0 ELSE val.pairs[1][2]

\* the number of vehicles a key of the mapping asks for
KeyCount(val) == IF val.int THEN val.n ELSE PairCount(val.pairs)

\* veh_ids: pair[0] repeated pair[1] times, for every pair in order
RECURSIVE KeyTypes(_)
KeyTypes(pairs) ==
    IF pairs = <<>> THEN <<>>
    ELSE [i \in 1..Head(pairs)[2] |-> Head(pairs)[1]] \o KeyTypes(Tail(pairs))

\* num_vehicles_e of gen_even_start_pos: the form of keys[0] picks the sum
NumVehiclesE(ed) ==
    IF ed.vals[1].int
    THEN SumSeq([i \in DOMAIN ed.vals |-> ed.vals[i].n])
    ELSE SumSeq([i \in DOMAIN ed.vals |-> PairCount(ed.vals[i].pairs)])

\* no call was made yet
NoHist ==
    [config |-> <<>>, types |-> <<>>, draws |-> <<>>,
     again |-> FALSE, prev_ret |-> <<>>, prev_draws |-> <<>>]

\* no weighted-mapping loop is running
NoOuter ==
    [active |-> FALSE, keys |-> <<>>, vals |-> <<>>, next |-> 1,
     positions |-> <<>>, lanes |-> <<>>]

NoRet == [exc |-> "", positions |-> <<>>, lanes |-> <<>>]

(***************************************************************************)
(* How a strategy frame ends                                               *)
(***************************************************************************)
\* an exception leaves every frame: generate_starting_positions raises it
Raise(e) ==
    /\ pc' = "done"
    /\ ret' = [exc |-> e, positions |-> <<>>, lanes |-> <<>>]
    /\ outer' = outer

\* return p, l: to the weighted-mapping loop (startpositions.extend(pos),
\* startlanes.extend(lane)) when it made the call, else to the caller
ReturnLists(p, l) ==
    IF outer.active
    THEN /\ pc' = "dict_loop"
         /\ outer' = [outer EXCEPT !.positions = @ \o p, !.lanes = @ \o l]
         /\ ret' = ret
    ELSE /\ pc' = "done"
         /\ ret' = [exc |-> "", positions |-> p, lanes |-> l]
         /\ outer' = outer

(***************************************************************************)
(* generate_starting_positions: the dispatch on initial_config.spacing     *)
(***************************************************************************)
\* the dispatch with the "random" branch calling the uniform strategy
DispatchAlwaysEven(spacing) ==
    IF spacing \in {"uniform", "random"} THEN "uniform"
    ELSE IF spacing = "custom" THEN "custom"
    ELSE "invalid"

\* the strategy the if / elif chain selects
Dispatch(spacing) ==
    IF spacing \in {"uniform", "random", "custom"} THEN spacing ELSE "invalid"

\* n is the num_vehicles argument; None and 0 both select the fleet's count
generate_starting_positions(n, kw) ==
    /\ pc = "idle"
    /\ strategy' = Dispatch(initial_config.spacing)
    /\ num_vehicles' = IF n = 0 THEN vehicles.num_vehicles ELSE n
    /\ kwargs' = kw
    /\ IF Dispatch(initial_config.spacing) \in {"uniform", "random"}
       THEN pc' = "enter" /\ ret' = ret /\ outer' = outer
       ELSE IF Dispatch(initial_config.spacing) = "custom"
            THEN Raise("NotImplementedError")
            ELSE Raise("ValueError")
    /\ hist' = [hist EXCEPT !.config = initial_config,
                            !.types = total_veh_types,
                            !.draws = <<>>]
    /\ UNCHANGED <<net, tables, vehicles, routes, netgen, initial_config,
                   total_veh_types, util, x, pos,
                   car_count, increment, startpositions, startlanes, query>>

(***************************************************************************)
(* The weighted-mapping loop of gen_even_start_pos / gen_random_start_pos  *)
(***************************************************************************)
\* edges_distribution = deepcopy(initial_config.edges_distribution);
\* startpositions, startlanes = [], []
EnterMapping ==
    /\ pc' = "dict_loop"
    /\ outer' = [active |-> TRUE,
                 keys |-> initial_config.edges_distribution.keys,
                 vals |-> initial_config.edges_distribution.vals,
                 next |-> 1, positions |-> <<>>, lanes |-> <<>>]
    /\ ret' = ret

\* one iteration of "for key in edges_distribution" up to the recursive call,
\* or the return that follows the last iteration
next_key ==
    /\ pc = "dict_loop"
    /\ IF outer.next > Len(outer.keys)
       THEN /\ pc' = "done"
            /\ ret' = [exc |-> "", positions |-> outer.positions,
                       lanes |-> outer.lanes]
            /\ UNCHANGED <<initial_config, num_vehicles, total_veh_types, outer>>
       ELSE LET key == outer.keys[outer.next]
                val == outer.vals[outer.next]
            IN  /\ initial_config' =
                     [initial_config EXCEPT !.edges_distribution =
                         [kind |-> "list", keys |-> <<key>>, vals |-> <<>>]]
                /\ num_vehicles' = KeyCount(val)
                /\ total_veh_types' =
                     IF val.int THEN total_veh_types
                     ELSE total_veh_types \o KeyTypes(val.pairs)
                /\ outer' = [outer EXCEPT !.next = @ + 1]
                /\ pc' = "enter"
                /\ ret' = ret
    /\ UNCHANGED <<net, tables, vehicles, routes, netgen, hist, strategy,
                   kwargs, util, x, pos, car_count,
                   increment, startpositions, startlanes, query>>

(***************************************************************************)
(* gen_even_start_pos                                                      *)
(***************************************************************************)
\* flag: not all edges of get_edge_list() have the same number of lanes
flag ==
    LET lanes == LanesOf(get_edge_list)
    IN  \E i \in 2..Len(lanes) : lanes[1] # lanes[i]

\* the stride without the vehicle's own length and the minimum gap
AdvanceNoGap(xx, inc, min_gap) == (xx + inc) % length

\* x = (x + increment + VEHICLE_LENGTH + min_gap) % self.length
Advance(xx, inc, min_gap) == (xx + inc + VL + min_gap) % length

\* the lane loop without the break at car_count == num_vehicles
LanesFilledNoQuota(edge, lanes_distr, left) ==
    Max2(0, Min2(num_lanes(edge), lanes_distr))

\* how many lanes "for lane in range(min([num_lanes, lanes_distr]))" fills
\* before car_count reaches num_vehicles; left = num_vehicles - car_count
LanesFilled(edge, lanes_distr, left) ==
    Min2(Max2(0, Min2(num_lanes(edge), lanes_distr)), left)

\* next_edge_pos taken to be the entry of `edge` itself
NextEdgeStartKeep(edge) ==
    LET hits == {i \in DOMAIN total_edgestarts : total_edgestarts[i][1] = edge}
        indx == CHOOSE i \in hits : \A j \in hits : i <= j
    IN  total_edgestarts[indx]

\* next_edge_pos: the entry of total_edgestarts after the one of `edge`,
\* the first entry after the last
NextEdgeStart(edge) ==
    LET hits == {i \in DOMAIN total_edgestarts : total_edgestarts[i][1] = edge}
        indx == CHOOSE i \in hits : \A j \in hits : i <= j
    IN  IF indx = Len(total_edgestarts)
        THEN total_edgestarts[1]
        ELSE total_edgestarts[indx + 1]

\* the perturbation added without the clamp to the edge
PerturbedNoClamp(positions, perturb) ==
    [i \in DOMAIN positions |->
        <<positions[i][1], positions[i][2] + perturb[i]>>]

\* max(0, min(edge_length(edge), pos + perturb)), for every placement
Perturbed(positions, perturb) ==
    [i \in DOMAIN positions |->
        <<positions[i][1],
          Max2(0, Min2(edge_length(positions[i][1]),
                       positions[i][2] + perturb[i]))>>]

\* the test of the second loop taken to succeed on every edge
EligibleAlways(edge) == TRUE

\* pos[0] in available_edges
Eligible(edge) == edge \in Range(util.available_edges)

\* pos[0] in dict(self.internal_edgestarts).keys()
InJunction == pos[1] \in DictKeys(internal_edgestarts)

\* the entry of the strategy: the test for a weighted mapping, the
\* vehicle-count assertion, _get_start_pos_util and the set-up of the loop
gen_even_start_pos ==
    /\ pc = "enter"
    /\ strategy = "uniform"
    /\ IF initial_config.edges_distribution.kind = "dict"
       THEN /\ IF num_vehicles # NumVehiclesE(initial_config.edges_distribution)
               THEN Raise("AssertionError")
               ELSE EnterMapping
            /\ UNCHANGED <<util, x, pos, car_count, increment, startpositions,
                           startlanes>>
       ELSE \E u \in {StartPosUtil(initial_config, num_vehicles, kwargs)} :
                /\ util' = u
                /\ IF u.exc # ""
                   THEN /\ Raise(u.exc)
                        /\ UNCHANGED <<x, pos, car_count, increment,
                                       startpositions, startlanes>>
                   ELSE IF num_vehicles = 0
                   THEN /\ ReturnLists(<<>>, <<>>)
                        /\ startpositions' = <<>>
                        /\ startlanes' = <<>>
                        /\ UNCHANGED <<x, pos, car_count, increment>>
                   ELSE /\ increment' = u.available_length \div num_vehicles
                        /\ x' = u.x0
                        /\ car_count' = 0
                        /\ startpositions' = <<>>
                        /\ startlanes' = <<>>
                        /\ pos' = get_edge(u.x0)
                        /\ IF get_edge(u.x0) = None
                           THEN Raise("TypeError")
                           ELSE pc' = "even_junction" /\ ret' = ret /\ outer' = outer
    /\ UNCHANGED <<net, tables, vehicles, routes, netgen, hist, initial_config,
                   total_veh_types, strategy,
                   num_vehicles, kwargs, query>>

\* one iteration of "while pos[0] in dict(self.internal_edgestarts).keys()"
even_skip_junction ==
    /\ pc = "even_junction"
    /\ InJunction
    /\ x' = NextEdgeStart(pos[1])[2]
    /\ pos' = <<NextEdgeStart(pos[1])[1], 0>>
    /\ UNCHANGED <<net, tables, vehicles, routes, netgen, hist, initial_config,
                   total_veh_types, pc, strategy,
                   num_vehicles, kwargs, util, car_count, increment,
                   startpositions, startlanes, outer, ret, query>>

\* one iteration of "while pos[0] not in available_edges"
even_skip_edge ==
    /\ pc \in {"even_junction", "even_eligible"}
    /\ pc = "even_junction" => ~InJunction
    /\ ~Eligible(pos[1])
    /\ LET nx == (x + edge_length(pos[1])) % length
       IN  /\ x' = nx
           /\ pos' = get_edge(nx)
           /\ IF get_edge(nx) = None
              THEN Raise("TypeError")
              ELSE pc' = "even_eligible" /\ ret' = ret /\ outer' = outer
    /\ UNCHANGED <<net, tables, vehicles, routes, netgen, hist, initial_config,
                   total_veh_types, strategy,
                   num_vehicles, kwargs, util, car_count, increment,
                   startpositions, startlanes, query>>

\* the rest of one iteration of "while car_count < num_vehicles": the
\* correction for variable lane counts, the lane loop and the advance of the
\* cursor; after the last vehicle, the perturbation and the return
even_place(perturb) ==
    /\ pc \in {"even_junction", "even_eligible"}
    /\ pc = "even_junction" => ~InJunction
    /\ Eligible(pos[1])
    /\ LET adj  == flag /\ pos[2] < VL
           p    == IF adj THEN <<pos[1], VL>> ELSE pos
           x1   == IF adj THEN x + VL ELSE x
           inc1 == IF adj
                   THEN increment -
                        (VL * num_lanes(pos[1])) \div (num_vehicles - car_count)
                   ELSE increment
           k    == LanesFilled(p[1], util.lanes_distribution,
                               num_vehicles - car_count)
           sp   == startpositions \o [i \in 1..k |-> p]
           sl   == startlanes \o [i \in 1..k |-> i - 1]
           nx   == Advance(x1, inc1, util.min_gap)
       IN  /\ car_count' = car_count + k
           /\ increment' = inc1
           /\ x' = nx
           /\ startlanes' = sl
           /\ IF car_count + k < num_vehicles
              THEN /\ startpositions' = sp
                   /\ pos' = get_edge(nx)
                   /\ hist' = hist
                   /\ IF get_edge(nx) = None
                      THEN Raise("TypeError")
                      ELSE pc' = "even_junction" /\ ret' = ret /\ outer' = outer
              ELSE LET final == IF initial_config.perturbation > 0
                                THEN Perturbed(sp, perturb)
                                ELSE sp
                   IN  /\ startpositions' = final
                       /\ pos' = p
                       /\ hist' = IF initial_config.perturbation > 0
                                  THEN [hist EXCEPT !.draws = Append(@, perturb)]
                                  ELSE hist
                       /\ ReturnLists(final, sl)
    /\ UNCHANGED <<net, tables, vehicles, routes, netgen, initial_config,
                   total_veh_types, strategy,
                   num_vehicles, kwargs, util, query>>

(***************************************************************************)
(* gen_random_start_pos                                                    *)
(***************************************************************************)
\* init_absolute_pos.sort()
RECURSIVE InsertInt(_, _)
InsertInt(sorted, v) ==
    IF sorted = <<>> THEN <<v>>
    ELSE IF Head(sorted) <= v
         THEN <<Head(sorted)>> \o InsertInt(Tail(sorted), v)
         ELSE <<v>> \o sorted

RECURSIVE SortInts(_)
SortInts(s) ==
    IF s = <<>> THEN <<>>
    ELSE InsertInt(SortInts(SubSeq(s, 1, Len(s) - 1)), s[Len(s)])

\* the values random.random() * available_length is drawn from: a grid over
\* [0, a) when a > 0, over (a, 0] when a < 0
RandGrid(a) ==
    IF a = 0 THEN {0}
    ELSE IF a > 0
    THEN {0, a \div 3, (2 * a) \div 3, a - 1}
    ELSE {0, -((-a) \div 3), -((2 * (-a)) \div 3), a + 1}

\* available_length -= efs * min([num_lanes(edge), lanes_distr]), per edge
RandomAvailable(u) ==
    u.available_length -
    SumSeq([i \in DOMAIN u.available_edges |->
              (u.min_gap + VL) *
              Min2(num_lanes(u.available_edges[i]), u.lanes_distribution)])

\* the samples left as drawn
SpreadNoSort(samples, efs) ==
    [i \in DOMAIN samples |-> samples[i] + efs * (i - 1)]

\* sort, then init_absolute_pos[i] += (VEHICLE_LENGTH + min_gap) * i
Spread(samples, efs) ==
    LET sorted == SortInts(samples)
    IN  [i \in DOMAIN sorted |-> sorted[i] + efs * (i - 1)]

\* the offset left inside the usable span, without the front space
FrontOffsetNone(pos_i, efs) == pos_i

\* pos_i += efs
FrontOffset(pos_i, efs) == pos_i + efs

\* the (edge, offset, lane) of one adjusted sample a: the computation before
\* the while loop and the iterations of "while lane_i > min(...) - 1".
\* edge_indx is 1-based here; IndexError when it runs off available_edges
RECURSIVE Settle(_, _, _, _)
Settle(a, decrement, edge_indx, u) ==
    IF edge_indx > Len(u.available_edges)
    THEN [exc |-> "IndexError", edge |-> "", pos |-> 0, lane |-> 0,
          decrement |-> decrement, edge_indx |-> edge_indx]
    ELSE LET efs    == u.min_gap + VL
             edge_i == u.available_edges[edge_indx]
             span   == edge_length(edge_i) - efs
             pos_i  == (a - decrement) % span
             lane_i == ((a - decrement) - pos_i) \div span
             cap    == Min2(num_lanes(edge_i), u.lanes_distribution)
         IN  IF lane_i > cap - 1
             THEN Settle(a, decrement + cap * span, edge_indx + 1, u)
             ELSE [exc |-> "", edge |-> edge_i, pos |-> FrontOffset(pos_i, efs),
                   lane |-> lane_i, decrement |-> decrement,
                   edge_indx |-> edge_indx]

\* "for i in range(num_vehicles)" from vehicle i on; decrement and edge_indx
\* carry over from one vehicle to the next
RECURSIVE Walk(_, _, _, _, _)
\* startpositions.append((edge_i, pos_i)); startlanes.append(lane_i)
WalkAppend(s, rest) ==
    [exc |-> rest.exc,
     positions |-> <<<<s.edge, s.pos>>>> \o rest.positions,
     lanes |-> <<s.lane>> \o rest.lanes]

WalkFrom(abs_pos, i, s, u) ==
    IF s.exc # ""
    THEN [exc |-> s.exc, positions |-> <<>>, lanes |-> <<>>]
    ELSE WalkAppend(s, Walk(abs_pos, i + 1, s.decrement, s.edge_indx, u))

Walk(abs_pos, i, decrement, edge_indx, u) ==
    IF i > Len(abs_pos)
    THEN [exc |-> "", positions |-> <<>>, lanes |-> <<>>]
    ELSE WalkFrom(abs_pos, i, Settle(abs_pos[i], decrement, edge_indx, u), u)

\* the strategy: the test for a weighted mapping, _get_start_pos_util, the
\* samples and the walk over available_edges
gen_random_start_pos ==
    /\ pc = "enter"
    /\ strategy = "random"
    /\ IF initial_config.edges_distribution.kind = "dict"
       THEN /\ EnterMapping
            /\ UNCHANGED <<util, startpositions, startlanes, hist>>
       ELSE \E u \in {StartPosUtil(initial_config, num_vehicles, kwargs)} :
                /\ util' = u
                /\ IF u.exc # ""
                   THEN /\ Raise(u.exc)
                        /\ UNCHANGED <<startpositions, startlanes, hist>>
                   ELSE \E samples \in [1..num_vehicles -> RandGrid(RandomAvailable(u))] :
                        \E w \in {Walk(Spread(samples, u.min_gap + VL), 1, 0, 1, u)} :
                           /\ hist' = [hist EXCEPT !.draws = Append(@, samples)]
                           /\ IF w.exc # ""
                              THEN /\ Raise(w.exc)
                                   /\ UNCHANGED <<startpositions, startlanes>>
                              ELSE /\ startpositions' = w.positions
                                   /\ startlanes' = w.lanes
                                   /\ ReturnLists(w.positions, w.lanes)
    /\ UNCHANGED <<net, tables, vehicles, routes, netgen, initial_config,
                   total_veh_types, strategy,
                   num_vehicles, kwargs, x, pos, car_count, increment, query>>

(***************************************************************************)
(* generate_net: the import of the network file netconvert wrote           *)
(***************************************************************************)
\* error = None: the local that "raise error" names; no statement assigns it
ErrorLocal == "None"

\* the loop has not started: no try made, nothing caught, nothing returned
NoNetgen ==
    [stage |-> "importing", attempts |-> 0, caught |-> "", result |-> 0,
     exc |-> ""]

\* generate_net returned the tables of its first try
Imported ==
    [stage |-> "returned", attempts |-> 1, caught |-> "", result |-> 1,
     exc |-> ""]

\* the attributes of a scenario before __init__ built them
NoTables ==
    [edge_list |-> <<>>, internal_edgestarts |-> <<>>, total_edgestarts |-> <<>>,
     length |-> 0]

\* "raise error": raising a value that is no exception is a TypeError
RaiseError(error, caught) == IF error = "None" THEN "TypeError" ELSE error

\* one iteration of "for _ in range(RETRIES_ON_ERROR)": the try of
\* _import_edges_from_net, which returns (outcome "") or raises `outcome`;
\* after the last iteration, the "raise error" that follows the loop.  When
\* generate_net returns, __init__ goes on to build its tables.
import_attempt(outcome) ==
    /\ netgen.stage = "importing"
    /\ netgen.attempts < RETRIES_ON_ERROR
    /\ IF outcome = ""
       THEN /\ netgen' = [netgen EXCEPT !.stage = "returned",
                                        !.attempts = @ + 1,
                                        !.result = netgen.attempts + 1]
            /\ tables' = BuildTables(net)
       ELSE /\ netgen' =
                 IF netgen.attempts + 1 < RETRIES_ON_ERROR
                 THEN [netgen EXCEPT !.attempts = @ + 1, !.caught = outcome]
                 ELSE [netgen EXCEPT !.attempts = @ + 1, !.caught = outcome,
                                     !.stage = "raised",
                                     !.exc = RaiseError(ErrorLocal, outcome)]
            /\ tables' = tables
    /\ UNCHANGED <<net, vehicles, routes, hist, initial_config, total_veh_types,
                   pc, frame, ret, query>>

(***************************************************************************)
(* make_routes: the binding of the placements to vehicle identities        *)
(***************************************************************************)
NoRoutes == [stage |-> "none", order |-> <<>>, exc |-> "", ids |-> <<>>]

\* vehicles.get_state(veh_id, "type")
TypeOf(veh_id) == vehicles.types[veh_id]

\* the first identity of the list, whatever its type; 0 for none
FirstOfAnyType(vehicle_ids, tag) == IF vehicle_ids = <<>> THEN 0 ELSE 1

\* next(k for k, veh_id in enumerate(vehicle_ids) if type of veh_id == tag),
\* 1-based here; 0 when the generator is exhausted (StopIteration)
FirstOfType(vehicle_ids, tag) ==
    LET hits == {k \in DOMAIN vehicle_ids : TypeOf(vehicle_ids[k]) = tag}
    IN  IF hits = {} THEN 0 ELSE CHOOSE k \in hits : \A h \in hits : k <= h

\* del vehicle_ids[j]
DelAt(vehicle_ids, j) ==
    SubSeq(vehicle_ids, 1, j - 1) \o SubSeq(vehicle_ids, j + 1, Len(vehicle_ids))

\* an exception of a later placement leaves make_routes: nothing is bound
BindAppend(veh_id, rest) ==
    [exc |-> rest.exc,
     ids |-> IF rest.exc = "" THEN <<veh_id>> \o rest.ids ELSE <<>>]

BindFailed(e) == [exc |-> e, ids |-> <<>>]

\* "for i, ((edge, pos), lane) in enumerate(zip(positions, lanes))" from
\* placement i on (1-based), n placements in all
RECURSIVE BindFrom(_, _, _, _)
BindTagged(i, n, vehicle_ids, tags) ==
    IF vehicle_ids = <<>> THEN BindFailed("StopIteration")
    ELSE IF i > Len(tags) THEN BindFailed("IndexError")
    ELSE LET j == FirstOfType(vehicle_ids, tags[i])
         IN  IF j = 0 THEN BindFailed("StopIteration")
             ELSE BindAppend(vehicle_ids[j],
                             BindFrom(i + 1, n, DelAt(vehicle_ids, j), tags))

BindFrom(i, n, vehicle_ids, tags) ==
    IF i > n THEN [exc |-> "", ids |-> <<>>]
    ELSE IF Len(tags) = 0
    THEN IF i > Len(vehicle_ids) THEN BindFailed("IndexError")
         ELSE BindAppend(vehicle_ids[i], BindFrom(i + 1, n, vehicle_ids, tags))
    ELSE BindTagged(i, n, vehicle_ids, tags)

\* __init__ hands the placements of generate_starting_positions to
\* make_routes; vehicle_ids is vehicles.get_ids(), shuffled when
\* initial_config.shuffle is set
make_routes(vehicle_ids) ==
    /\ pc = "done"
    /\ ret.exc = ""
    /\ routes.stage = "none"
    /\ \E b \in {BindFrom(1, Len(ret.positions), vehicle_ids, total_veh_types)} :
          routes' = [stage |-> "made", order |-> vehicle_ids,
                     exc |-> b.exc, ids |-> b.ids]
    /\ UNCHANGED <<net, tables, vehicles, netgen, hist, initial_config,
                   total_veh_types, pc, frame, ret, query>>

(***************************************************************************)
(* Position lookups of a runtime caller                                    *)
(***************************************************************************)
NoQuery ==
    [stage |-> "none", x |-> 0, pos |-> None, abs |-> [exc |-> "", val |-> 0],
     fn |-> "", edge |-> "", lane |-> 0, val |-> 0, list |-> <<>>]

\* get_edge(xx); the model follows one lookup per behaviour
query_get_edge(xx) ==
    /\ query.stage = "none"
    /\ query' = [NoQuery EXCEPT !.stage = "located", !.x = xx,
                                !.pos = get_edge(xx)]
    /\ UNCHANGED <<net, tables, vehicles, routes, netgen, hist, initial_config,
                   total_veh_types, pc, frame, ret>>

\* get_x(*pos) for the pair the last get_edge returned
query_get_x ==
    /\ query.stage = "located"
    /\ query.pos # None
    /\ query' = [query EXCEPT !.stage = "absolute",
                              !.abs = get_x(query.pos[1], query.pos[2])]
    /\ UNCHANGED <<net, tables, vehicles, routes, netgen, hist, initial_config,
                   total_veh_types, pc, frame, ret>>

\* get_x(edge, position) for any identifier
query_get_x_of(edge, position) ==
    /\ query.stage = "none"
    /\ query' = [NoQuery EXCEPT !.stage = "absolute_of", !.edge = edge,
                                !.x = position, !.abs = get_x(edge, position)]
    /\ UNCHANGED <<net, tables, vehicles, routes, netgen, hist, initial_config,
                   total_veh_types, pc, frame, ret>>

\* one of edge_length, speed_limit, num_lanes, next_edge, prev_edge
query_lookup(fn, edge, lane) ==
    /\ query.stage = "none"
    /\ query' = [NoQuery EXCEPT
                    !.stage = "lookup", !.fn = fn, !.edge = edge, !.lane = lane,
                    !.val = IF fn = "edge_length" THEN edge_length(edge)
                            ELSE IF fn = "speed_limit" THEN speed_limit(edge)
                            ELSE IF fn = "num_lanes" THEN num_lanes(edge)
                            ELSE 0,
                    !.list = IF fn = "next_edge" THEN next_edge(edge, lane)
                             ELSE IF fn = "prev_edge" THEN prev_edge(edge, lane)
                             ELSE <<>>]
    /\ UNCHANGED <<net, tables, vehicles, routes, netgen, hist, initial_config,
                   total_veh_types, pc, frame, ret>>

(***************************************************************************)
(* The networks, fleets and configurations the scenario is built from      *)
(***************************************************************************)
\* edge lengths, in metres; vehicles fit on an edge longer than
\* min_gap + VEHICLE_LENGTH only
EdgeLengths == {4, 20}

LaneCounts == {1, 2}

\* the length of an internal link, in metres
JunctionLengths == {2}

\* the order of the edges along the coordinate frame; internal links take
\* part in it when the network is built with no_internal_links = False
Frames == {<<"a">>, <<"a", "b">>, <<"a", ":j", "b">>, <<"a", ":j">>}

\* the start of the i-th entry of a frame: the lengths before it
RECURSIVE StartOf(_, _, _)
StartOf(fr, len, i) == IF i = 1 THEN 0 ELSE StartOf(fr, len, i - 1) + len[fr[i - 1]]

\* the speed of an edge that names none, anywhere in the network file
DEFAULT_SPEED == 30

\* connection_data of a network whose edges follow each other in frame
\* order: lane l of an edge leads to lane l of the next one
ConnectionsOf(fr, lanes) ==
    LET shared(i) == 0..(Min2(lanes[fr[i]], lanes[fr[i + 1]]) - 1)
        at(e)     == CHOOSE i \in DOMAIN fr : fr[i] = e
    IN  [next |-> [e \in {fr[i] : i \in 1..(Len(fr) - 1)} |->
                     [l \in shared(at(e)) |-> <<<<fr[at(e) + 1], l>>>>]],
         prev |-> [e \in {fr[i] : i \in 2..Len(fr)} |->
                     [l \in shared(at(e) - 1) |-> <<<<fr[at(e) - 1], l>>>>]]]

\* a network whose edge-starts partition the coordinate line in frame order
MkNet(fr, len, lanes) ==
    LET all == [i \in DOMAIN fr |-> <<fr[i], StartOf(fr, len, i)>>]
    IN  [edge_keys |-> fr,
         length |-> len,
         lanes |-> lanes,
         speed |-> [e \in Range(fr) |-> DEFAULT_SPEED],
         connections |-> ConnectionsOf(fr, lanes),
         no_internal_links |-> \A i \in DOMAIN fr : ~HasColonPrefix(fr[i]),
         edgestarts |-> SelectSeq(all, LAMBDA t : ~HasColonPrefix(t[1])),
         internal_edgestarts |-> SelectSeq(all, LAMBDA t : HasColonPrefix(t[1])),
         intersection_edgestarts |-> <<>>]

NetworksOf(fr, lengths, lanecounts) ==
    {MkNet(fr, len, lanes) :
        len \in {f \in [Range(fr) -> {M(v) : v \in lengths \cup JunctionLengths}] :
                    \A e \in Range(fr) :
                        IF HasColonPrefix(e)
                        THEN f[e] \in {M(v) : v \in JunctionLengths}
                        ELSE f[e] \in {M(v) : v \in lengths}},
        lanes \in {f \in [Range(fr) -> lanecounts \cup {1}] :
                    \A e \in Range(fr) :
                        IF HasColonPrefix(e) THEN f[e] = 1 ELSE f[e] \in lanecounts}}

Networks == UNION {NetworksOf(fr, EdgeLengths, LaneCounts) : fr \in Frames}

NoKwargs == [has_x0 |-> FALSE, x0 |-> 0, has_bunching |-> FALSE, bunching |-> 0]

All == [kind |-> "all", keys |-> <<>>, vals |-> <<>>]

EdgeList(keys) == [kind |-> "list", keys |-> keys, vals |-> <<>>]

IntVal(n) == [int |-> TRUE, n |-> n, pairs |-> <<>>]

PairsVal(pairs) == [int |-> FALSE, n |-> 0, pairs |-> pairs]

Mapping(keys, vals) == [kind |-> "dict", keys |-> keys, vals |-> vals]

\* the sequences without repetition over a set of at most two edges
Orders(S) ==
    {<<e>> : e \in S} \cup {o \in {<<e, f>> : e \in S, f \in S} : o[1] # o[2]}

\* the edge lists a configuration may name
ListsOf(n) == {EdgeList(k) : k \in Orders(Range(SelectSeq(n.edge_keys,
                                            LAMBDA e : ~HasColonPrefix(e))))}

\* the weighted mappings in integer form that ask for at most MaxVeh vehicles
IntMappingsOf(n) ==
    LET ks == Orders(Range(SelectSeq(n.edge_keys, LAMBDA e : ~HasColonPrefix(e))))
    IN  UNION {{Mapping(k, [i \in DOMAIN k |-> IntVal(c[i])]) :
                   c \in {d \in [DOMAIN k -> 0..MaxVeh] : SumSeq(d) <= MaxVeh}} :
               k \in ks}

\* the weighted mappings in (type, count)-pair form over one key
PairMappingsOf(n) ==
    {Mapping(<<"a">>, <<PairsVal(<<<<"human", i>>, <<"rl", j>>>>)>>) :
        i \in 0..(MaxVeh - 1), j \in 0..1}

ConfigsOf(n, spacings, min_gaps, bunchings, x0s, lanes_ds, dists) ==
    {[spacing |-> s, min_gap |-> M(g), bunching |-> M(b), x0 |-> M(x0),
      lanes_distribution |-> ld, edges_distribution |-> ed, perturbation |-> 0] :
        s \in spacings, g \in min_gaps, b \in bunchings, x0 \in x0s,
        ld \in lanes_ds, ed \in dists}

\* a fleet of k vehicles of one type
HumanFleet(k) == [num_vehicles |-> k, types |-> [i \in 1..k |-> "human"]]

\* no placement call was made and no lookup
InitCall ==
    /\ pc = "idle"
    /\ strategy = "none"
    /\ num_vehicles = 0
    /\ kwargs = NoKwargs
    /\ util = NoUtil
    /\ x = 0
    /\ pos = None
    /\ car_count = 0
    /\ increment = 0
    /\ startpositions = <<>>
    /\ startlanes = <<>>
    /\ outer = NoOuter
    /\ ret = NoRet
    /\ query = NoQuery
    /\ hist = NoHist
    /\ routes = NoRoutes

\* the state after construction, before a placement call, with the inputs
\* drawn from the given sets
InitFleets(nets, fleets, configs) ==
    /\ net \in nets
    /\ tables = BuildTables(net)
    /\ vehicles \in fleets
    /\ initial_config \in configs[net]
    /\ total_veh_types = <<>>
    /\ netgen = Imported
    /\ InitCall

\* the same, with fleets of one type and the given sizes
InitFrom(nets, fleets, configs) ==
    InitFleets(nets, {HumanFleet(k) : k \in fleets}, configs)

(***************************************************************************)
(* Specification of the placement call: both strategies, with the token,   *)
(* edge lists and weighted mappings                                        *)
(***************************************************************************)
PlainConfigs(n) ==
    ConfigsOf(n, {"uniform", "random"}, {0, 2}, {0}, {0, 21}, {1, 2},
              {All} \cup ListsOf(n))

MappingConfigs(n) ==
    ConfigsOf(n, {"uniform", "random"}, {0}, {0}, {0}, {1, 2},
              IntMappingsOf(n) \cup PairMappingsOf(n))

CallConfigs(n) == PlainConfigs(n) \cup MappingConfigs(n)

Init == InitFrom(Networks, 0..MaxVeh, [n \in Networks |-> CallConfigs(n)])

Next ==
    \/ generate_starting_positions(0, NoKwargs)
    \/ gen_even_start_pos
    \/ even_skip_junction
    \/ even_skip_edge
    \/ \E perturb \in {[i \in 1..num_vehicles |-> 0]} : even_place(perturb)
    \/ gen_random_start_pos
    \/ next_key

Spec == Init /\ [][Next]_vars

(***************************************************************************)
(* Specification of the coordinate index: lookups on every network         *)
(***************************************************************************)
DefaultConfig(n) ==
    ConfigsOf(n, {"uniform"}, {0}, {0}, {0}, {1}, {All})

InitCoord == InitFrom(Networks, {0}, [n \in Networks |-> DefaultConfig(n)])

NextCoord ==
    \/ \E xx \in 0..(length - 1) : query_get_edge(xx)
    \/ query_get_x

SpecCoord == InitCoord /\ [][NextCoord]_vars

(***************************************************************************)
(* Specification of the lookups of a runtime caller, with identifiers and  *)
(* positions the tables do not hold                                        *)
(***************************************************************************)
\* through edges, internal links, a lane of an internal link, identifiers no
\* network has, and the empty identifier
LookupIds == {"a", "b", ":j", ":j_0", ":k", "z", ""}

LookupLanes == {-1, 0, 1, 2}

\* absolute positions, in metres: before the origin, on the first edge, past
\* the end of every network
LookupXs == {M(v) : v \in {-1, 0, 3, 21, 100}}

NextLookup ==
    \/ \E xx \in LookupXs : query_get_edge(xx)
    \/ query_get_x
    \/ \E edge \in LookupIds, position \in {0, M(3)} : query_get_x_of(edge, position)
    \/ \E fn \in {"edge_length", "speed_limit", "num_lanes", "next_edge", "prev_edge"},
          edge \in LookupIds, lane \in LookupLanes : query_lookup(fn, edge, lane)

SpecLookup == InitCoord /\ [][NextLookup]_vars

(***************************************************************************)
(* Specification of the merge of the junction starts: scenarios whose      *)
(* subclass names internal links in specify_internal_edge_starts, in       *)
(* specify_intersection_edge_starts, or in both                            *)
(***************************************************************************)
\* the entries the two methods may return: the links :j and :k of the
\* junction behind an edge of 20 m, at its start or one metre into it
JunctionEntries ==
    {<<e, M(v)>> : e \in {":j", ":k"}, v \in {20, 21}}

\* the lists of at most two entries
JunctionLists ==
    {<<>>} \cup {<<t>> : t \in JunctionEntries}
           \cup {<<t, u>> : t \in JunctionEntries, u \in JunctionEntries}

MergeNetworks ==
    {[n EXCEPT !.internal_edgestarts = internal,
               !.intersection_edgestarts = intersection] :
        n \in NetworksOf(<<"a", ":j", "b">>, {20}, {1}),
        internal \in JunctionLists, intersection \in JunctionLists}

InitMerge == InitFrom(MergeNetworks, {0}, [n \in MergeNetworks |-> DefaultConfig(n)])

SpecMerge == InitMerge /\ [][NextLookup]_vars

(***************************************************************************)
(* Specification of the dispatch: every spacing mode, one that is none of  *)
(* the three included                                                      *)
(***************************************************************************)
DispatchConfigs(n) ==
    ConfigsOf(n, {"uniform", "random", "custom", "grid"}, {0}, {0}, {0}, {1, 2},
              {All} \cup ListsOf(n))

InitDispatch == InitFrom(Networks, {0, 1, 2}, [n \in Networks |-> DispatchConfigs(n)])

NextDispatch ==
    \/ generate_starting_positions(0, NoKwargs)
    \/ gen_even_start_pos
    \/ even_skip_junction
    \/ even_skip_edge
    \/ \E perturb \in {[i \in 1..num_vehicles |-> 0]} : even_place(perturb)
    \/ gen_random_start_pos

SpecDispatch == InitDispatch /\ [][NextDispatch]_vars

(***************************************************************************)
(* Specification of the parameters _get_start_pos_util resolves: bunching  *)
(* and lanes_distribution in and out of range, start offsets before the    *)
(* origin, overrides of a call                                             *)
(***************************************************************************)
UtilConfigs(n) ==
    ConfigsOf(n, {"uniform", "random"}, {0}, {-3, 0, 4}, {-1, 0},
              {-1, 0, 1, 2, 3}, {All} \cup ListsOf(n))

\* the override maps of a call: none, or a bunching value
UtilKwargs ==
    {NoKwargs} \cup
    {[has_x0 |-> FALSE, x0 |-> 0, has_bunching |-> TRUE, bunching |-> M(b)] :
        b \in {-2, 1}}

InitUtil == InitFrom(Networks, {0, 1, 2}, [n \in Networks |-> UtilConfigs(n)])

NextUtil ==
    \/ \E kw \in UtilKwargs : generate_starting_positions(0, kw)
    \/ gen_even_start_pos
    \/ even_skip_junction
    \/ even_skip_edge
    \/ \E perturb \in {[i \in 1..num_vehicles |-> 0]} : even_place(perturb)
    \/ gen_random_start_pos

SpecUtil == InitUtil /\ [][NextUtil]_vars

(***************************************************************************)
(* Specification of the length filter of _get_start_pos_util: edges        *)
(* shorter than, as long as and longer than min_gap + VEHICLE_LENGTH       *)
(***************************************************************************)
\* edge lengths, in metres: 5 = VEHICLE_LENGTH, 7 = VEHICLE_LENGTH + min_gap 2
FilterLengths == {4, 5, 7, 20}

FilterNetworks ==
    UNION {NetworksOf(fr, FilterLengths, {1}) : fr \in Frames}

FilterConfigs(n) ==
    ConfigsOf(n, {"uniform", "random"}, {0, 2}, {0}, {0, 21}, {1}, {All} \cup ListsOf(n))

InitFilter == InitFrom(FilterNetworks, {0, 1}, [n \in FilterNetworks |-> FilterConfigs(n)])

SpecFilter == InitFilter /\ [][NextDispatch]_vars

(***************************************************************************)
(* Specification of the uniform strategy                                   *)
(***************************************************************************)
\* the samples of np.random.normal(0, perturbation), in model units
PerturbSamples == {-M(30), -M(1), M(1), M(30)}

PerturbLists ==
    IF initial_config.perturbation > 0
    THEN [1..num_vehicles -> PerturbSamples]
    ELSE {[i \in 1..num_vehicles |-> 0]}

\* start offsets, in metres: the origin, less than a vehicle length into the
\* first edge, inside it, one metre into what follows an edge of 20 m, and
\* past the end of every network
EvenX0s == {0, 3, 21, 45}

EvenConfigs(n) ==
    ConfigsOf(n, {"uniform"}, {0, 2}, {0, 4}, EvenX0s, {1, 2},
              {All} \cup ListsOf(n))

\* the override maps of a call: none, or a start offset inside the first edge
EvenKwargs ==
    {NoKwargs, [has_x0 |-> TRUE, x0 |-> M(13), has_bunching |-> FALSE, bunching |-> 0]}

InitEven == InitFrom(Networks, 0..MaxVeh, [n \in Networks |-> EvenConfigs(n)])

NextEven ==
    \/ \E kw \in EvenKwargs : generate_starting_positions(0, kw)
    \/ gen_even_start_pos
    \/ even_skip_junction
    \/ even_skip_edge
    \/ \E perturb \in PerturbLists : even_place(perturb)

SpecEven == InitEven /\ [][NextEven]_vars

(***************************************************************************)
(* Specification of the uniform strategy as a program that runs on: a     *)
(* step that is possible is taken (single-threaded code, no suspension    *)
(* points)                                                                 *)
(***************************************************************************)
\* start offsets, in metres: the origin, inside the first edge, and one metre
\* into what follows an edge of 20 m
TermConfigs(n) ==
    ConfigsOf(n, {"uniform"}, {0}, {0}, {0, 3, 21}, {1, 2}, {All} \cup ListsOf(n))

InitTerm == InitFrom(Networks, 0..MaxVeh, [n \in Networks |-> TermConfigs(n)])

NextTerm ==
    \/ generate_starting_positions(0, NoKwargs)
    \/ gen_even_start_pos
    \/ even_skip_junction
    \/ even_skip_edge
    \/ \E perturb \in {[i \in 1..num_vehicles |-> 0]} : even_place(perturb)

SpecTerm == InitTerm /\ [][NextTerm]_vars /\ WF_vars(NextTerm)

(***************************************************************************)
(* Specification of the uniform strategy with a perturbation               *)
(***************************************************************************)
\* the configurations of the spec's example: perturbation = 10 (metres)
PerturbConfigs(n) ==
    {[c EXCEPT !.perturbation = M(10)] :
        c \in ConfigsOf(n, {"uniform"}, {0, 2}, {0}, {0, 21}, {1, 2}, {All})}

InitPerturb == InitFrom(Networks, 0..MaxVeh, [n \in Networks |-> PerturbConfigs(n)])

SpecPerturb == InitPerturb /\ [][NextEven]_vars

(***************************************************************************)
(* Specification of two successive placement calls on one scenario         *)
(***************************************************************************)
\* the caller invokes generate_starting_positions once more on the same
\* scenario (as on a reset): the locals of the finished call are gone, the
\* attributes of the scenario and the caller's configuration object stay
call_again ==
    /\ pc = "done"
    /\ ~hist.again
    /\ hist' = [hist EXCEPT !.again = TRUE, !.prev_ret = ret,
                            !.prev_draws = hist.draws]
    /\ pc' = "idle"
    /\ ret' = NoRet
    /\ strategy' = "none"
    /\ num_vehicles' = 0
    /\ kwargs' = NoKwargs
    /\ util' = NoUtil
    /\ x' = 0
    /\ pos' = None
    /\ car_count' = 0
    /\ increment' = 0
    /\ startpositions' = <<>>
    /\ startlanes' = <<>>
    /\ outer' = NoOuter
    /\ UNCHANGED <<net, tables, vehicles, routes, netgen, initial_config, total_veh_types, query>>

RepeatConfigs(n) ==
    ConfigsOf(n, {"uniform", "random"}, {0}, {0}, {0}, {1},
              {All} \cup ListsOf(n) \cup IntMappingsOf(n) \cup PairMappingsOf(n))

InitRepeat == InitFrom(Networks, {0, 1, 2}, [n \in Networks |-> RepeatConfigs(n)])

NextRepeat ==
    \/ Next
    \/ call_again

SpecRepeat == InitRepeat /\ [][NextRepeat]_vars

(***************************************************************************)
(* Specification of the construction up to make_routes: fleets of two     *)
(* vehicle types, weighted mappings in integer and in pair form            *)
(***************************************************************************)
BindNetworks == UNION {NetworksOf(fr, {20}, {1}) : fr \in Frames}

\* the fleets: every list of at most MaxVeh vehicle types
BindFleets ==
    {[num_vehicles |-> Len(t), types |-> t] :
        t \in UNION {[1..k -> {"human", "rl"}] : k \in 0..MaxVeh}}

\* the weighted mappings in (type, count)-pair form that ask for at most
\* MaxVeh vehicles
BindMappingsOf(n) ==
    LET ks == Orders(Range(SelectSeq(n.edge_keys, LAMBDA e : ~HasColonPrefix(e))))
        vs == {PairsVal(<<<<"human", i>>, <<"rl", j>>>>) : i \in 0..1, j \in 0..1}
                \cup {PairsVal(<<<<"rl", j>>>>) : j \in 1..2}
    IN  UNION {{Mapping(k, v) :
                   v \in {w \in [DOMAIN k -> vs] :
                             SumSeq([i \in DOMAIN k |-> PairCount(w[i].pairs)])
                               <= MaxVeh}} :
               k \in ks}

BindConfigs(n) ==
    ConfigsOf(n, {"uniform", "random"}, {0}, {0}, {0, 21}, {1},
              {All} \cup IntMappingsOf(n) \cup BindMappingsOf(n))

InitBind == InitFleets(BindNetworks, BindFleets, [n \in BindNetworks |-> BindConfigs(n)])

NextBind ==
    \/ Next
    \/ \E vehicle_ids \in Permutations(1..vehicles.num_vehicles) :
          make_routes(vehicle_ids)

SpecBind == InitBind /\ [][NextBind]_vars

(***************************************************************************)
(* Specification of the construction up to the return of generate_net      *)
(***************************************************************************)
\* what _import_edges_from_net may raise: the file is missing, or it is not
\* well-formed because netconvert is still writing it
ImportErrors == {"OSError", "ParseError"}

InitImport ==
    /\ net \in Networks
    /\ tables = NoTables
    /\ vehicles = HumanFleet(0)
    /\ initial_config \in DefaultConfig(net)
    /\ total_veh_types = <<>>
    /\ netgen = NoNetgen
    /\ InitCall

NextImport == \E outcome \in {""} \cup ImportErrors : import_attempt(outcome)

SpecImport == InitImport /\ [][NextImport]_vars

(***************************************************************************)
(* Specification of the random strategy                                    *)
(***************************************************************************)
RandomNetworks ==
    UNION {NetworksOf(fr, EdgeLengths, LaneCounts) : fr \in {<<"a">>, <<"a", "b">>}}

RandomConfigs(n) ==
    ConfigsOf(n, {"random"}, {0, 2}, {0, 4}, {0}, {1, 2}, {All} \cup ListsOf(n))

InitRandom == InitFrom(RandomNetworks, 0..MaxVeh, [n \in RandomNetworks |-> RandomConfigs(n)])

NextRandom ==
    \/ generate_starting_positions(0, NoKwargs)
    \/ gen_random_start_pos

SpecRandom == InitRandom /\ [][NextRandom]_vars

(***************************************************************************)
(* Properties                                                              *)
(***************************************************************************)
\* C1: for every absolute position x with 0 <= x < length, get_x applied to
\* the (edge, offset) pair that get_edge(x) returned gives x again, on
\* networks with and without internal links in the coordinate frame.
C1_RoundTrip ==
    query.stage = "absolute" =>
        /\ query.abs.exc = ""
        /\ query.abs.val = query.x

\* a round trip through an internal link, away from its start
C1_Witness ==
    /\ query.stage = "absolute"
    /\ ~net.no_internal_links
    /\ HasColonPrefix(query.pos[1])
    /\ query.pos[2] > 0
    /\ query.abs.val = query.x

\* the call returned its placements
Returned == pc = "done" /\ ret.exc = ""

Abs(v) == IF v < 0 THEN -v ELSE v

\* min_gap as the strategies use it
MinGap == Max2(0, initial_config.min_gap)

\* any two placements on the same edge and lane are min_gap + VEHICLE_LENGTH apart
GapRespected(positions, lanes) ==
    \A i, j \in DOMAIN positions :
        (i < j /\ positions[i][1] = positions[j][1] /\ lanes[i] = lanes[j])
            => Abs(positions[i][2] - positions[j][2]) >= MinGap + VL

\* C2: with perturbation 0, any two vehicles the uniform strategy places on
\* the same edge and lane have offsets at least min_gap + VEHICLE_LENGTH apart.
C2_EvenMinGap ==
    (Returned /\ strategy = "uniform" /\ initial_config.perturbation = 0)
        => GapRespected(ret.positions, ret.lanes)

\* C4: every placement (edge, offset) of the uniform strategy has
\* 0 <= offset <= edge_length(edge), for every start offset x0.
C4_EvenOffsetInEdge ==
    (Returned /\ strategy = "uniform")
        => \A i \in DOMAIN ret.positions :
              /\ 0 <= ret.positions[i][2]
              /\ ret.positions[i][2] <= edge_length(ret.positions[i][1])

\* C3: any two vehicles the random strategy places on the same edge and lane
\* have offsets at least min_gap + VEHICLE_LENGTH apart, whatever the samples.
C3_RandomMinGap ==
    (Returned /\ strategy = "random") => GapRespected(ret.positions, ret.lanes)

\* C5: every placement of the uniform and of the random strategy has a lane
\* index l with 0 <= l < num_lanes(edge) and l < lanes_distribution.
C5_LaneInRange ==
    Returned =>
        \A i \in DOMAIN ret.positions :
            /\ 0 <= ret.lanes[i]
            /\ ret.lanes[i] < num_lanes(ret.positions[i][1])
            /\ ret.lanes[i] < util.lanes_distribution

\* the eligible edges of a candidate list: longer than min_gap + VEHICLE_LENGTH
EligibleOf(candidates) ==
    {e \in Range(candidates) : edge_length(e) > MinGap + VL}

\* the candidate edges of the call: every through edge for the token, the
\* listed edges for a list, the keys for a weighted mapping
CallCandidates ==
    IF outer.active THEN outer.keys
    ELSE IF initial_config.edges_distribution.kind = "all" THEN get_edge_list
    ELSE initial_config.edges_distribution.keys

\* C6: every placement of the uniform and of the random strategy names an
\* eligible edge, never an internal link, also when the cursor of the uniform
\* strategy passed over a junction or a non-eligible edge.
C6_PlacementEdgesEligible ==
    Returned =>
        \A i \in DOMAIN ret.positions :
            /\ ret.positions[i][1] \in EligibleOf(CallCandidates)
            /\ ~HasColonPrefix(ret.positions[i][1])

\* the stride the spec gives for one edge of length L with one lane:
\* (L - N * (5 + g)) / N + 5 + g
ExactStride(L, N, g) == (L - N * (VL + g)) \div N + VL + g

\* the case of C7: the token or a list, a network of one through edge with
\* one lane, no bunching, no perturbation
SingleEdgeCase ==
    /\ Returned
    /\ strategy = "uniform"
    /\ ~outer.active
    /\ num_vehicles >= 1
    /\ Len(get_edge_list) = 1
    /\ num_lanes(get_edge_list[1]) = 1
    /\ util.bunching = 0
    /\ initial_config.perturbation = 0

\* consecutive offsets of the returned list differ by exactly the stride
StrideKept ==
    \A i \in 1..(Len(ret.positions) - 1) :
        /\ ret.positions[i][2] < ret.positions[i + 1][2]
        /\ ret.positions[i + 1][2] - ret.positions[i][2] =
             ExactStride(edge_length(get_edge_list[1]), num_vehicles, util.min_gap)

\* C7 as stated: with N vehicles on a single edge of length L, one lane, no
\* bunching and no perturbation, the offsets are strictly increasing in output
\* order and consecutive offsets differ by exactly (L - N*(5+g))/N + 5 + g.
C7_StrideAsStated == SingleEdgeCase => StrideKept

\* the cursor does not wrap: it starts on the edge and the last vehicle is
\* placed before the end of the edge
NoWrap ==
    /\ 0 <= util.x0
    /\ util.x0 + (num_vehicles - 1) *
         ExactStride(edge_length(get_edge_list[1]), num_vehicles, util.min_gap)
       < edge_length(get_edge_list[1])

\* C7, amended: the same, for a start offset x0 >= 0 with
\* x0 + (N - 1) * stride < L, so that the cursor does not wrap around.
C7_ExactStride == (SingleEdgeCase /\ NoWrap) => StrideKept

\* three vehicles placed from a start offset inside the edge, without a wrap
C7_Witness ==
    /\ SingleEdgeCase
    /\ NoWrap
    /\ util.x0 > 0
    /\ Len(ret.positions) = MaxVeh
    /\ StrideKept

\* the distributable length of C8: the sum over the eligible edges of
\* edge_length * min(lane_count, lanes_distribution)
DistributableLength(cfg, lanes_distr) ==
    LET cand == IF cfg.edges_distribution.kind = "all"
                THEN get_edge_list ELSE cfg.edges_distribution.keys
    IN  SumSeq([i \in DOMAIN cand |->
                  IF edge_length(cand[i]) > Max2(0, cfg.min_gap) + VL
                  THEN edge_length(cand[i]) * Min2(num_lanes(cand[i]), lanes_distr)
                  ELSE 0])

\* C8: _get_start_pos_util raises the capacity error (ValueError) exactly
\* when num_vehicles * (min_gap + VEHICLE_LENGTH) exceeds
\* distributable_length - lanes_distribution * bunching, and returns otherwise.
C8_CapacityError ==
    [][(pc = "enter" /\ initial_config.edges_distribution.kind # "dict") =>
          /\ util'.exc \in {"", "ValueError"}
          /\ (util'.exc = "ValueError") <=>
               (num_vehicles * (Max2(0, initial_config.min_gap) + VL) >
                  DistributableLength(initial_config, util'.lanes_distribution)
                    - util'.lanes_distribution * util'.bunching)
          /\ (util'.exc = "ValueError") <=> (pc' = "done" /\ ret'.exc = "ValueError")
      ]_vars

\* the capacity error was raised for a request that exceeds the capacity by
\* less than one vehicle
C8_Witness ==
    /\ pc = "done"
    /\ ret.exc = "ValueError"
    /\ util.exc = "ValueError"
    /\ util.available_length < 0
    /\ util.available_length + util.min_gap + VL > 0

\* the weighted mapping the call was made with
CallMapping ==
    IF outer.active
    THEN [keys |-> outer.keys, vals |-> outer.vals]
    ELSE [keys |-> initial_config.edges_distribution.keys,
          vals |-> initial_config.edges_distribution.vals]

\* the call was made with a weighted mapping
MappingCall == outer.active \/ initial_config.edges_distribution.kind = "dict"

\* n_k: the integer, or the sum of the counts of the (type, count) pairs
RequestedCount(val) ==
    IF val.int THEN val.n ELSE SumSeq([i \in DOMAIN val.pairs |-> val.pairs[i][2]])

MappingSum ==
    SumSeq([i \in DOMAIN CallMapping.vals |-> RequestedCount(CallMapping.vals[i])])

\* key k repeated n_k times, for the keys in order
RECURSIVE ExpectedEdges(_, _)
ExpectedEdges(keys, vals) ==
    IF keys = <<>> THEN <<>>
    ELSE [i \in 1..RequestedCount(Head(vals)) |-> Head(keys)]
           \o ExpectedEdges(Tail(keys), Tail(vals))

\* the edges of the returned placements, in output order
ReturnedEdges == [i \in DOMAIN ret.positions |-> ret.positions[i][1]]

\* the supplied vehicle count: the fleet's, as the call passes no count
SuppliedCount == vehicles.num_vehicles

\* C9 as stated: when the counts of a weighted mapping sum to the vehicle
\* count, each strategy returns exactly n_k placements on edge k, for every
\* key k, grouped in the order of the keys.
C9_MappingAsStated ==
    (pc = "done" /\ MappingCall /\ MappingSum = SuppliedCount)
        => /\ ret.exc = ""
           /\ ReturnedEdges = ExpectedEdges(CallMapping.keys, CallMapping.vals)
           /\ Len(ret.lanes) = Len(ret.positions)

\* C9, amended: when the counts sum to the vehicle count and the call
\* returns (no sub-request of a key fails the capacity check), it returns
\* exactly n_k placements on edge k, for every key k, in the order of the keys.
C9_MappingHonoured ==
    (Returned /\ MappingCall /\ MappingSum = SuppliedCount)
        => /\ ReturnedEdges = ExpectedEdges(CallMapping.keys, CallMapping.vals)
           /\ Len(ret.lanes) = Len(ret.positions)

\* a mapping of two keys, each with vehicles, was placed in key order
C9_Witness ==
    /\ Returned
    /\ outer.active
    /\ MappingSum = SuppliedCount
    /\ Len(outer.keys) = 2
    /\ \A i \in 1..2 : RequestedCount(outer.vals[i]) >= 1
    /\ ReturnedEdges = ExpectedEdges(outer.keys, outer.vals)

\* C10: when the counts of a weighted mapping do not sum to the supplied
\* vehicle count, generate_starting_positions fails with an error and returns
\* no placements, in the uniform and in the random spacing mode.
C10_MismatchFatal ==
    (pc = "done" /\ MappingCall /\ MappingSum # SuppliedCount)
        => ret.exc # "" /\ ret.positions = <<>> /\ ret.lanes = <<>>

\* two vehicles of the random strategy share an edge and a lane
C3_Witness ==
    /\ Returned
    /\ strategy = "random"
    /\ \E i, j \in DOMAIN ret.positions :
          /\ i < j
          /\ ret.positions[i][1] = ret.positions[j][1]
          /\ ret.lanes[i] = ret.lanes[j]
          /\ ret.positions[j][2] - ret.positions[i][2] = MinGap + VL

\* a uniform placement whose cursor started inside an internal link, on a
\* network that also has an edge that is not eligible
C6_Witness ==
    /\ Returned
    /\ strategy = "uniform"
    /\ ret.positions # <<>>
    /\ get_edge(util.x0) # None
    /\ HasColonPrefix(get_edge(util.x0)[1])
    /\ \E e \in Range(get_edge_list) : e \notin EligibleOf(CallCandidates)

\* the perturbation step: the last step of a uniform placement that returns,
\* in a call with perturbation > 0
PerturbationStep ==
    /\ pc \in {"even_junction", "even_eligible"}
    /\ pc' \in {"done", "dict_loop"}
    /\ ret'.exc = ""
    /\ initial_config.perturbation > 0

\* C11: with perturbation > 0 and any sampled perturbation values, the final
\* offset of every uniform placement lies in [0, edge_length(edge)], and the
\* edge and the lane of every placement are the ones chosen before the
\* perturbation was applied.
C11_PerturbationStaysOnEdge ==
    [][PerturbationStep =>
          /\ Len(startpositions') = Len(startlanes')
          /\ \A i \in DOMAIN startpositions' :
                /\ 0 <= startpositions'[i][2]
                /\ startpositions'[i][2] <= edge_length(startpositions'[i][1])
                /\ startpositions'[i][1] =
                     (IF i <= Len(startpositions) THEN startpositions[i][1] ELSE pos[1])
                /\ startlanes'[i] =
                     (IF i <= Len(startlanes) THEN startlanes[i]
                      ELSE i - Len(startlanes) - 1)
      ]_vars

\* one sample pushed a vehicle to the end of its edge and another one pulled
\* a vehicle back to the start of its edge
C11_Witness ==
    /\ Returned
    /\ initial_config.perturbation > 0
    /\ Len(hist.draws) = 1
    /\ \E i, j \in DOMAIN ret.positions :
          /\ hist.draws[1][i] > edge_length(ret.positions[i][1])
          /\ ret.positions[i][2] = edge_length(ret.positions[i][1])
          /\ hist.draws[1][j] < -edge_length(ret.positions[j][1])
          /\ ret.positions[j][2] = 0

\* C12: two successive calls of generate_starting_positions on the same
\* scenario, with the same configuration object, the same override arguments
\* and the same random draws, return identical (positions, lanes) lists, for
\* the 'all' token, an edge list and a weighted mapping.
C12_RepeatedCallIdempotent ==
    (pc = "done" /\ hist.again /\ hist.draws = hist.prev_draws)
        => ret = hist.prev_ret

\* C13: after a call of the uniform or the random strategy, whether it
\* returned or raised, the edges_distribution of the caller's initial_config
\* equals its value before the call.
C13_CallerConfigUnchanged ==
    pc = "done" =>
        initial_config.edges_distribution = hist.config.edges_distribution

\* C14: a call of generate_starting_positions leaves the fields of the
\* scenario as they were before the call, the tag list total_veh_types among
\* them, so that the tag list never outgrows the placements of one call.
C14_NoStateKept ==
    pc = "done" =>
        /\ total_veh_types = hist.types
        /\ tables = BuildTables(net)

\* the identifier is a key of the edge table
KnownEdge(edge) == edge \in Range(net.edge_keys)

\* C15: get_edge(x) for any x and get_x(edge, offset) for any identifier,
\* one that is in no edge-start table included, raise no exception; get_x
\* returns the 'not found' sentinel for an identifier it does not know.
C15_LookupsNeverRaise ==
    /\ query.stage \in {"absolute", "absolute_of"} => query.abs.exc = ""
    /\ (query.stage = "absolute_of" /\ query.edge \notin DictKeys(total_edgestarts)
          /\ query.edge \notin DictKeys(internal_edgestarts)
          /\ RSplitHead(query.edge) \notin DictKeys(total_edgestarts))
        => query.abs.val = NOT_FOUND

\* a lookup step of one of the five attribute and connectivity functions
LookupStep == query.stage = "none" /\ query'.stage = "lookup"

\* C16: edge_length, speed_limit and num_lanes return the stored value for a
\* known identifier and -1001 for an unknown one; next_edge and prev_edge
\* return the stored list for a known edge and lane and the empty list
\* otherwise; none of them changes a table.
C16_LookupSentinels ==
    [][LookupStep =>
          /\ net' = net
          /\ tables' = tables
          /\ query'.fn = "edge_length" =>
                query'.val = IF KnownEdge(query'.edge)
                             THEN net.length[query'.edge] ELSE -1001
          /\ query'.fn = "speed_limit" =>
                query'.val = IF KnownEdge(query'.edge)
                             THEN net.speed[query'.edge] ELSE -1001
          /\ query'.fn = "num_lanes" =>
                query'.val = IF KnownEdge(query'.edge)
                             THEN net.lanes[query'.edge] ELSE -1001
          /\ query'.fn = "next_edge" =>
                query'.list =
                    IF /\ query'.edge \in DOMAIN net.connections.next
                       /\ query'.lane \in DOMAIN net.connections.next[query'.edge]
                    THEN net.connections.next[query'.edge][query'.lane]
                    ELSE <<>>
          /\ query'.fn = "prev_edge" =>
                query'.list =
                    IF /\ query'.edge \in DOMAIN net.connections.prev
                       /\ query'.lane \in DOMAIN net.connections.prev[query'.edge]
                    THEN net.connections.prev[query'.edge][query'.lane]
                    ELSE <<>>
      ]_vars

\* edge_length asked for an identifier the edge table does not hold
C16_Witness ==
    /\ query.stage = "lookup"
    /\ query.fn = "edge_length"
    /\ ~KnownEdge(query.edge)
    /\ query.val = NOT_FOUND

\* the call failed with error e before any strategy computed anything
FailedWith(e) ==
    /\ pc = "done"
    /\ ret = [exc |-> e, positions |-> <<>>, lanes |-> <<>>]
    /\ util = NoUtil
    /\ hist.draws = <<>>

\* C17: generate_starting_positions raises an error and returns no
\* placements when spacing is none of 'uniform', 'random', 'custom', raises
\* the not-implemented error when spacing is 'custom' (gen_custom_start_pos
\* not overridden), and invokes exactly the strategy of the mode otherwise.
C17_DispatchBySpacing ==
    pc # "idle" =>
        /\ initial_config.spacing \notin {"uniform", "random", "custom"}
              => FailedWith("ValueError")
        /\ initial_config.spacing = "custom" => FailedWith("NotImplementedError")
        /\ initial_config.spacing \in {"uniform", "random"}
              => strategy = initial_config.spacing
        /\ pc \in {"even_junction", "even_eligible"}
              => initial_config.spacing = "uniform"
        /\ hist.draws # <<>> => initial_config.spacing = "random"

\* a call with spacing 'custom' ended with the not-implemented error
C17_Witness ==
    /\ initial_config.spacing = "custom"
    /\ FailedWith("NotImplementedError")
    /\ vehicles.num_vehicles > 0

\* _get_start_pos_util has returned or raised in the running call
UtilCalled == util # NoUtil

\* C18: the bunching value _get_start_pos_util returns and uses is never
\* negative, whether it comes from initial_config.bunching or from the
\* override map of the call.
C18_BunchingNotNegative ==
    UtilCalled =>
        /\ util.bunching >= 0
        /\ util.available_length =
             DistributableLength(initial_config, util.lanes_distribution)
               - util.lanes_distribution * Max2(0, util.bunching)
               - num_vehicles * (util.min_gap + VL)

\* M of C19: the largest lane count over the eligible edges of the call
MaxEligibleLanes == MaxSeq(LanesOf(util.available_edges))

\* C19: for every requested lanes_distribution the value _get_start_pos_util
\* returns lies in [1, M], M the largest lane count over the eligible edges,
\* and equals the requested value when that is in [1, M] already; an
\* out-of-range request raises no error.
C19_LanesDistributionClamped ==
    (UtilCalled /\ util.available_edges # <<>>) =>
        /\ 1 <= util.lanes_distribution
        /\ util.lanes_distribution <= MaxEligibleLanes
        /\ (1 <= initial_config.lanes_distribution
              /\ initial_config.lanes_distribution <= MaxEligibleLanes)
             => util.lanes_distribution = initial_config.lanes_distribution
        /\ (util.exc # "") => CapacityError(util.available_length, num_vehicles,
                                            util.min_gap)

\* C20: for a configuration the capacity check accepts, the uniform and the
\* random strategy return exactly num_vehicles positions and exactly
\* num_vehicles lanes, and two empty lists when num_vehicles is 0.
C20_EveryVehiclePlaced ==
    (pc = "done" /\ ~outer.active /\ UtilCalled /\ util.exc = "") =>
        /\ ret.exc = ""
        /\ Len(ret.positions) = num_vehicles
        /\ Len(ret.lanes) = num_vehicles

\* the candidate edges that are not shorter than min_gap + VEHICLE_LENGTH
NotShorter(candidates) ==
    SelectSeq(candidates, LAMBDA e : edge_length(e) >= util.min_gap + VL)

\* C23: the eligible-edge list _get_start_pos_util returns consists of exactly
\* the candidate edges (all through edges for the token, the listed edges
\* otherwise) that are not shorter than min_gap + VEHICLE_LENGTH, in candidate
\* order; only shorter edges are excluded.
C23_EligibleFilter ==
    (UtilCalled /\ ~outer.active) =>
        util.available_edges = NotShorter(CallCandidates)

\* C24: every placement (edge, offset) of the random strategy has
\* min_gap + VEHICLE_LENGTH <= offset <= edge_length(edge), for every
\* configuration the capacity check accepts and every outcome of the samples.
C24_RandomFrontSpace ==
    (Returned /\ strategy = "random") =>
        \A i \in DOMAIN ret.positions :
            /\ MinGap + VL <= ret.positions[i][2]
            /\ ret.positions[i][2] <= edge_length(ret.positions[i][1])

\* a sample fell on the first point of the usable span of the second eligible
\* edge: the vehicle is placed exactly one front space into that edge
C24_Witness ==
    /\ Returned
    /\ strategy = "random"
    /\ Len(util.available_edges) = 2
    /\ \E i \in DOMAIN ret.positions :
          /\ ret.positions[i][1] = util.available_edges[2]
          /\ ret.positions[i][2] = MinGap + VL
          /\ MinGap > 0

\* the index of an edge in the eligible list of the call
EligibleIndex(edge) ==
    CHOOSE k \in DOMAIN util.available_edges : util.available_edges[k] = edge

\* (edge index, lane, offset) of placement i comes before that of placement j
LexBefore(i, j) ==
    LET ei == EligibleIndex(ret.positions[i][1])
        ej == EligibleIndex(ret.positions[j][1])
    IN  \/ ei < ej
        \/ ei = ej /\ ret.lanes[i] < ret.lanes[j]
        \/ ei = ej /\ ret.lanes[i] = ret.lanes[j]
             /\ ret.positions[i][2] < ret.positions[j][2]

\* C25: in the list the random strategy returns for a list or the 'all'
\* token, the triple (index of the edge in the eligible list, lane, offset)
\* increases strictly, in lexicographic order, from each placement to the next.
C25_RandomOrdering ==
    (Returned /\ strategy = "random" /\ ~outer.active) =>
        \A i \in 1..(Len(ret.positions) - 1) : LexBefore(i, i + 1)

\* samples drawn in descending order were placed over two edges and both
\* lanes of an edge
C25_Witness ==
    /\ Returned
    /\ strategy = "random"
    /\ ~outer.active
    /\ Len(ret.positions) = MaxVeh
    /\ \A i \in 1..(MaxVeh - 1) : hist.draws[1][i] > hist.draws[1][i + 1]
    /\ ret.positions[1][1] # ret.positions[MaxVeh][1]
    /\ \E i \in DOMAIN ret.lanes : ret.lanes[i] = 1

\* the step of the uniform strategy that places vehicles at one cursor position
PlacementStep ==
    /\ pc \in {"even_junction", "even_eligible"}
    /\ Len(startlanes') > Len(startlanes)

\* C26: the placements made at one cursor position share the same (edge,
\* offset) and carry the lanes 0, 1, 2, ... in this order without a gap, up to
\* min(lane_count(edge), lanes_distribution) - 1 or until the vehicle quota is
\* met; the cursor is advanced after them, and the next cursor position
\* starts again at lane 0.
C26_SideBySideLanes ==
    [][PlacementStep =>
          LET old == Len(startlanes)
              k   == Len(startlanes') - old
              at  == startpositions'[old + 1]
          IN  /\ Len(startpositions') = Len(startlanes')
              /\ SubSeq(startlanes', 1, old) = startlanes
              /\ SubSeq(startpositions', 1, old) = startpositions
              /\ at[1] = pos[1]
              /\ k = Min2(Min2(num_lanes(at[1]), util.lanes_distribution),
                          num_vehicles - old)
              /\ \A i \in 1..k :
                    /\ startlanes'[old + i] = i - 1
                    /\ startpositions'[old + i] = at
              /\ car_count' = old + k
      ]_vars

\* two lanes were filled at one cursor position and the next cursor position
\* started at lane 0 again
C26_Witness ==
    /\ Returned
    /\ strategy = "uniform"
    /\ ret.lanes = <<0, 1, 0>>
    /\ ret.positions[1] = ret.positions[2]
    /\ ret.positions[2] # ret.positions[3]

\* the uniform strategy has entered its placement loop with a start offset
\* inside the network
EvenLoopEntered ==
    /\ pc = "even_junction"
    /\ strategy = "uniform"
    /\ num_vehicles > 0
    /\ 0 <= util.x0
    /\ util.x0 < length

C28_RandomWalkInRange ==
    (pc = "done" /\ strategy = "random" /\ ~outer.active /\ UtilCalled
       /\ util.exc = "") =>
        /\ ret.exc # "IndexError"
        /\ RandomAvailable(util) >= 0

\* the entries of s at the indices idx, in the order of s
RECURSIVE EntriesAt(_, _, _)
EntriesAt(s, idx, i) ==
    IF i > Len(s) THEN <<>>
    ELSE (IF i \in idx THEN <<s[i]>> ELSE <<>>) \o EntriesAt(s, idx, i + 1)

\* the first occurrence of every edge identifier of a list of entries
FirstById(s) ==
    EntriesAt(s, {i \in DOMAIN s : \A j \in 1..(i - 1) : s[j][1] # s[i][1]}, 1)

\* C22: the merged internal edge-start list built at construction holds, for
\* every edge identifier of the internal or the intersection edge-start
\* list, exactly one entry, the first occurrence of that identifier; it drops
\* only entries whose identifier occurred earlier, and keeps two entries with
\* different identifiers.
C22_MergeByIdentifier ==
    internal_edgestarts =
        FirstById(net.internal_edgestarts \o net.intersection_edgestarts)

\* make_routes has run on the placements the call returned
RoutesMade == routes.stage = "made"

\* the types a (type, count)-pair mapping requests for the key `edge`
RequestedTypes(edge) ==
    LET k == CHOOSE k \in DOMAIN outer.keys : outer.keys[k] = edge
    IN  {outer.vals[k].pairs[i][1] :
            i \in {h \in DOMAIN outer.vals[k].pairs : outer.vals[k].pairs[h][2] > 0}}

\* the identities that come before position k of the identity list
Before(k) == {routes.order[h] : h \in 1..(k - 1)}

\* what C21 says of the identities bound to the returned placements
BoundAsStated ==
    /\ routes.exc = ""
    /\ Len(routes.ids) = Len(ret.positions)
    /\ \A i, j \in DOMAIN routes.ids : i # j => routes.ids[i] # routes.ids[j]
    /\ total_veh_types = <<>> =>
          \A i \in DOMAIN routes.ids : routes.ids[i] = routes.order[i]
    /\ total_veh_types # <<>> =>
          \A i \in DOMAIN routes.ids :
             /\ TypeOf(routes.ids[i]) = total_veh_types[i]
             /\ \E k \in DOMAIN routes.order :
                   /\ routes.order[k] = routes.ids[i]
                   /\ \A v \in Before(k) :
                         TypeOf(v) = total_veh_types[i]
                            => v \in {routes.ids[j] : j \in 1..(i - 1)}
             /\ TypeOf(routes.ids[i]) \in RequestedTypes(ret.positions[i][1])

\* C21 as stated: make_routes binds the placements to pairwise distinct
\* identities: the i-th identity of the (possibly shuffled) list when no tags
\* were recorded, else the first identity not yet assigned whose type is the
\* tag of the placement, so that a vehicle on a key of a (type, count)-pair
\* mapping has one of the types requested for the key.
C21_BindingAsStated == RoutesMade => BoundAsStated

\* the fleet holds an identity for every placement and, when tags were
\* recorded, as many identities of each type as there are tags of the type
FleetSuffices ==
    IF total_veh_types = <<>>
    THEN Len(ret.positions) <= vehicles.num_vehicles
    ELSE \A t \in Range(total_veh_types) :
            Cardinality({i \in DOMAIN total_veh_types : total_veh_types[i] = t})
              <= Cardinality({v \in DOMAIN vehicles.types : vehicles.types[v] = t})

\* C21, amended: the same, when the fleet holds an identity for every
\* placement and as many identities of each type as the mapping requests;
\* with a smaller fleet make_routes raises and binds nothing.
C21_IdentityBinding ==
    RoutesMade =>
        IF FleetSuffices THEN BoundAsStated
        ELSE routes.exc \in {"IndexError", "StopIteration"} /\ routes.ids = <<>>

\* a shuffled fleet of two types was bound to the placements of a pair
\* mapping of two keys, each key asking for another type
C21_Witness ==
    /\ RoutesMade
    /\ routes.exc = ""
    /\ Len(outer.keys) = 2
    /\ Len(total_veh_types) = MaxVeh
    /\ total_veh_types[1] # total_veh_types[MaxVeh]
    /\ routes.order # [i \in 1..vehicles.num_vehicles |-> i]
    /\ routes.ids # routes.order
    /\ BoundAsStated

\* C29: generate_net tries _import_edges_from_net at most RETRIES_ON_ERROR
\* (10) times, returns the tables of the first try that succeeds without a
\* further try, and after 10 failed tries gives up by raising the import
\* error instead of returning tables.
C29_BoundedRetry ==
    /\ netgen.attempts <= 10
    /\ netgen.stage = "returned" =>
          /\ netgen.result = netgen.attempts
          /\ tables = BuildTables(net)
    /\ netgen.stage = "importing" => netgen.attempts < 10 /\ tables = NoTables
    /\ netgen.stage = "raised" =>
          /\ netgen.attempts = 10
          /\ netgen.exc = netgen.caught
          /\ tables = NoTables

====
